---- MODULE Spec2Model ----
(***************************************************************************)
(* Model of the retrieval pipeline of the D&D assistant                    *)
(* (src/tools/rag.py: DocumentProcessor and RAGSystem) and of its callers  *)
(* in src/agent.py.                                                        *)
(*                                                                         *)
(* Text is modelled as a sequence of tokens: SP is one whitespace          *)
(* character, XS is a run of characters that _clean_text deletes, and a    *)
(* positive integer is a word (see token_chars for its length).            *)
(* Distances and scores are fixed-point numbers in thousandths, which is   *)
(* the precision search() rounds its scores to.                            *)
(***************************************************************************)
EXTENDS Integers, Sequences, FiniteSets, TLC

VARIABLES
    ct,          \* one call of DocumentProcessor.chunk_text: arguments and outcome
    corpus,      \* the files of the data directory
    collection,  \* the Chroma collection: id -> [text, metadata]
    run,         \* the index_documents call in progress or last finished
    prev,        \* summary of the index_documents call before that one
    srch,        \* the last search / get_context_for_query / search_rule call
    boot,        \* the last start of the application (DnDAgent.__init__)
    xq,          \* one call of RAGSystem._expand_query: argument and outcome
    llm,         \* the DnDAssistantModel: what it probed and which backend it has
    tracker      \* the InitiativeTracker of the GUI

vars == <<ct, corpus, collection, run, prev, srch, boot, xq, llm, tracker>>

ragvars == <<corpus, collection, run, prev, srch, boot, xq, llm, tracker>>

\* a part of the application that is not in use
Idle == [phase |-> "none"]

----------------------------------------------------------------------------
(* Bounds of the model *)

MaxWords == 8        \* longest clean text handed to chunk_text in SpecChunk
MaxMessy == 4        \* longest text with irregular whitespace in SpecChunk
MaxChunkSize == 4    \* largest chunk_size argument in SpecChunk
MaxOverlap == 4      \* largest overlap argument in SpecChunk

----------------------------------------------------------------------------
(* Tokens and strings *)

SP == 0
XS == 0 - 1

\* the number of characters of a token: a word up to 100000 has 5, a word
\* above 100000 has 60, a run of deleted characters has 30
token_chars(t) ==
    IF t = SP THEN 1 ELSE IF t = XS THEN 30 ELSE IF t > 100000 THEN 60 ELSE 5

Min(a, b) == IF a < b THEN a ELSE b
Max(a, b) == IF a > b THEN a ELSE b

\* len(text), in characters
len(text) ==
    LET n(S) == Cardinality({i \in 1..Len(text) : token_chars(text[i]) = S})
    IN n(1) + 5 * n(5) + 30 * n(30) + 60 * n(60)

\* text.strip(): drop leading and trailing whitespace
strip(text) ==
    LET lead(i) == \A j \in 1..i : text[j] = SP
        trail(i) == \A j \in i..Len(text) : text[j] = SP
        marked == [i \in 1..Len(text) |->
                      IF text[i] = SP /\ (lead(i) \/ trail(i)) THEN SP - 9 ELSE text[i]]
    IN SelectSeq(marked, LAMBDA t : t # SP - 9)

\* text.split(): the whitespace-separated words, in order
split(text) == SelectSeq(text, LAMBDA t : t # SP)

\* ' '.join(words)
join(words) ==
    IF Len(words) = 0 THEN <<>>
    ELSE [i \in 1..(2 * Len(words) - 1) |-> IF i % 2 = 1 THEN words[(i + 1) \div 2] ELSE SP]

\* words[i:j] for 0 <= i, 0 <= j
slice(words, i, j) == SubSeq(words, i + 1, Min(j, Len(words)))

\* list(range(0, stop, step)) for step # 0
range0(stop, step) ==
    IF step < 0 \/ stop <= 0 THEN <<>>
    ELSE [k \in 1..((stop + step - 1) \div step) |-> (k - 1) * step]

\* n distinct short words, the first one being base + 1
Words(base, n) == [k \in 1..n |-> base + k]

----------------------------------------------------------------------------
(* DocumentProcessor.chunk_text *)

Returned(v) == [kind |-> "return", value |-> v]
Raised(e) == [kind |-> "raise", error |-> e]

\* chunk_text whose windows stop `overlap` words before the end of the text
chunk_text_short_range(text, chunk_size, overlap) ==
    LET words == split(text)
        step == chunk_size - overlap
    IN IF Len(words) <= chunk_size
       THEN Returned(IF strip(text) # <<>> THEN <<text>> ELSE <<>>)
       ELSE IF step = 0
            THEN Raised("ValueError")
            ELSE LET starts == range0(Len(words) - overlap, step)
                     all == [k \in 1..Len(starts) |->
                                join(slice(words, starts[k], starts[k] + chunk_size))]
                 IN Returned(SelectSeq(all, LAMBDA c : strip(c) # <<>>))

\* chunk_text that windows a text of exactly chunk_size words
chunk_text_strict_bound(text, chunk_size, overlap) ==
    LET words == split(text)
        step == chunk_size - overlap
    IN IF Len(words) < chunk_size
       THEN Returned(IF strip(text) # <<>> THEN <<text>> ELSE <<>>)
       ELSE IF step = 0
            THEN Raised("ValueError")
            ELSE LET starts == range0(Len(words), step)
                     all == [k \in 1..Len(starts) |->
                                join(slice(words, starts[k], starts[k] + chunk_size))]
                 IN Returned(SelectSeq(all, LAMBDA c : strip(c) # <<>>))

\* chunk_text whose windows follow each other without overlap
chunk_text_no_overlap(text, chunk_size, overlap) ==
    LET words == split(text)
        step == chunk_size
    IN IF Len(words) <= chunk_size
       THEN Returned(IF strip(text) # <<>> THEN <<text>> ELSE <<>>)
       ELSE IF step = 0
            THEN Raised("ValueError")
            ELSE LET starts == range0(Len(words), step)
                     all == [k \in 1..Len(starts) |->
                                join(slice(words, starts[k], starts[k] + chunk_size))]
                 IN Returned(SelectSeq(all, LAMBDA c : strip(c) # <<>>))

\* chunk_text whose windows start one word further than the step
chunk_text_wide_step(text, chunk_size, overlap) ==
    LET words == split(text)
        step == chunk_size - overlap + 1
    IN IF Len(words) <= chunk_size
       THEN Returned(IF strip(text) # <<>> THEN <<text>> ELSE <<>>)
       ELSE IF step = 0
            THEN Raised("ValueError")
            ELSE LET starts == range0(Len(words), step)
                     all == [k \in 1..Len(starts) |->
                                join(slice(words, starts[k], starts[k] + chunk_size))]
                 IN Returned(SelectSeq(all, LAMBDA c : strip(c) # <<>>))

chunk_text(text, chunk_size, overlap) ==
    LET words == split(text)
        step == chunk_size - overlap
    IN IF Len(words) <= chunk_size
       THEN Returned(IF strip(text) # <<>> THEN <<text>> ELSE <<>>)
       ELSE IF step = 0
            THEN Raised("ValueError")   \* range() arg 3 must not be zero
            ELSE LET starts == range0(Len(words), step)
                     all == [k \in 1..Len(starts) |->
                                join(slice(words, starts[k], starts[k] + chunk_size))]
                 IN Returned(SelectSeq(all, LAMBDA c : strip(c) # <<>>))

----------------------------------------------------------------------------
(* DocumentProcessor: extraction and cleaning *)

\* re.sub(r'\s+', ' ', text), then deletion of the characters outside the
\* allowed set, then strip()
_clean_text(text) ==
    LET marked == [i \in 1..Len(text) |->
                      IF text[i] = SP /\ i > 1 /\ text[i - 1] = SP THEN SP - 9 ELSE text[i]]
        collapsed == SelectSeq(marked, LAMBDA t : t # SP - 9)
    IN strip(SelectSeq(collapsed, LAMBDA t : t # XS))

min_page_chars == 50
min_section_chars == 100

\* The configured files, in the order load_all_pdfs reads them
pdf_files == <<"DnD_BasicRules_2018.pdf", "PlayerHandbook.pdf">>
ref_file == "DnD_Reference_Guide.txt"

\* A file of the data directory: exists, failAt = k > 0 when reading raises
\* before unit k is appended (1: the file cannot be opened), units = the text
\* of each page (PDF) or of each section between two rules of '=' (text file)
File(exists, failAt, units) == [exists |-> exists, failAt |-> failAt, units |-> units]
Missing == File(FALSE, 0, <<>>)

load_pdf(name, file) ==
    LET n == IF file.failAt = 0 THEN Len(file.units) ELSE Min(file.failAt - 1, Len(file.units))
        all == [i \in 1..n |->
                   [text |-> _clean_text(file.units[i]), source |-> name, page |-> i,
                    keep |-> /\ strip(file.units[i]) # <<>>
                             /\ len(_clean_text(file.units[i])) > min_page_chars]]
        kept == SelectSeq(all, LAMBDA d : d.keep)
    IN [i \in 1..Len(kept) |->
           [text |-> kept[i].text, source |-> kept[i].source, page |-> kept[i].page]]

load_text_file(name, file) ==
    LET n == IF file.failAt = 0 THEN Len(file.units) ELSE 0
        all == [i \in 1..n |->
                   [text |-> _clean_text(strip(file.units[i])), source |-> name, page |-> i,
                    keep |-> /\ strip(file.units[i]) # <<>>
                             /\ len(strip(file.units[i])) > min_section_chars]]
        kept == SelectSeq(all, LAMBDA d : d.keep)
    IN [i \in 1..Len(kept) |->
           [text |-> kept[i].text, source |-> kept[i].source, page |-> kept[i].page]]

load_all_pdfs(files) ==
    LET pdf(k) == IF files[pdf_files[k]].exists
                  THEN load_pdf(pdf_files[k], files[pdf_files[k]]) ELSE <<>>
        ref == IF files[ref_file].exists THEN load_text_file(ref_file, files[ref_file]) ELSE <<>>
    IN pdf(1) \o pdf(2) \o ref

----------------------------------------------------------------------------
(* Editions of the data directory *)

batch_size == 50
chunk_size_default == 250
overlap_default == 75

MaxBatches == 3      \* batches needed to index the largest edition
MaxRuns == 2         \* index_documents calls in one behaviour
MaxStarts == 1       \* starts of the application in one behaviour

\* n pages, each a single distinct word of 60 characters
LongWords(n) == [k \in 1..n |-> <<100000 + k>>]

\* no configured file exists
NoFiles == [f \in {pdf_files[1], pdf_files[2], ref_file} |-> Missing]

\* one document with a single page of 600 distinct words
ScenarioFiles ==
    [NoFiles EXCEPT ![pdf_files[1]] = File(TRUE, 0, <<join(Words(0, 600))>>)]

\* a later edition of the same document: the page now holds 300 other words
RevisedFiles ==
    [NoFiles EXCEPT ![pdf_files[1]] = File(TRUE, 0, <<join(Words(5000, 300))>>)]

\* enough one-chunk pages to need MaxBatches batches
ManyFiles ==
    [NoFiles EXCEPT ![pdf_files[2]] =
        File(TRUE, 0, LongWords((MaxBatches - 1) * batch_size + 1))]

\* pages and sections around the length thresholds, a file whose second
\* page cannot be read
MixedFiles ==
    [NoFiles EXCEPT
       ![pdf_files[1]] = File(TRUE, 0, << join(Words(100, 3)),
                                          <<SP, SP>>,
                                          <<SP>> \o join(Words(200, 251)) \o <<SP, SP>>,
                                          <<>>,
                                          join(Words(600, 250)) >>),
       ![pdf_files[2]] = File(TRUE, 2, LongWords(3)),
       ![ref_file] = File(TRUE, 0, << <<SP, 100901, SP, SP, XS, SP, 100902, SP>>,
                                      join(Words(900, 12)),
                                      <<XS, SP, XS, SP, XS, SP, XS>>,
                                      <<XS, SP, XS, SP, XS, SP, XS, SP, 950>> >>)]

\* a document that cannot be opened and a reference file whose only section
\* is made of characters that _clean_text deletes: one document, no chunk
BlankFiles ==
    [NoFiles EXCEPT
       ![pdf_files[1]] = File(TRUE, 1, LongWords(2)),
       ![ref_file] = File(TRUE, 0, << <<XS, SP, XS, SP, XS, SP, XS>> >>)]

Editions == {"none", "scenario", "revised", "many", "mixed", "blank"}

Files(edition) ==
    CASE edition = "none" -> NoFiles
      [] edition = "scenario" -> ScenarioFiles
      [] edition = "revised" -> RevisedFiles
      [] edition = "many" -> ManyFiles
      [] edition = "mixed" -> MixedFiles
      [] edition = "blank" -> BlankFiles

----------------------------------------------------------------------------
(* RAGSystem.index_documents *)

Digit == <<"0", "1", "2", "3", "4", "5", "6", "7", "8", "9">>

\* str(n) for n >= 0: the decimal digits, one character each
RECURSIVE str(_)
str(n) == IF n < 10 THEN <<Digit[n + 1]>> ELSE Append(str(n \div 10), Digit[(n % 10) + 1])

\* int(digits)
RECURSIVE int(_)
int(digits) ==
    IF digits = <<>> THEN 0
    ELSE 10 * int(SubSeq(digits, 1, Len(digits) - 1))
         + (CHOOSE d \in 0..9 : Digit[d + 1] = digits[Len(digits)])

\* an id that leaves the page out
chunk_id_without_page(source, page, chunk_idx) == <<source, "_c">> \o str(chunk_idx)

\* f"{source}_p{page}_c{chunk_idx}": the file name, then the characters of
\* the rest
chunk_id(source, page, chunk_idx) ==
    <<source, "_p">> \o str(page) \o <<"_c">> \o str(chunk_idx)

\* the texts, metadatas and ids lists, as one list of items, for the
\* documents lo..hi (the loop over documents, split in halves)
RECURSIVE build_items(_, _, _)
build_items(documents, lo, hi) ==
    IF lo > hi THEN <<>>
    ELSE IF lo = hi
    THEN LET doc == documents[lo]
             chunks == chunk_text(doc.text, chunk_size_default, overlap_default).value
         IN [c \in 1..Len(chunks) |->
                [text |-> chunks[c],
                 metadata |-> [source |-> doc.source, page |-> doc.page, chunk |-> c - 1],
                 id |-> chunk_id(doc.source, doc.page, c - 1)]]
    ELSE build_items(documents, lo, (lo + hi) \div 2)
         \o build_items(documents, ((lo + hi) \div 2) + 1, hi)

count(coll) == Cardinality(DOMAIN coll)

\* an add() after which the collection holds the records of the batch only
collection_add_replacing(coll, batch) ==
    LET ids == {batch[k].id : k \in 1..Len(batch)}
        item(id) == batch[CHOOSE k \in 1..Len(batch) : batch[k].id = id]
    IN [id \in ids |-> [text |-> item(id).text, metadata |-> item(id).metadata]]

\* collection.add(documents, embeddings, metadatas, ids): a record whose id is
\* already stored is left as it is
collection_add(coll, batch) ==
    LET ids == {batch[k].id : k \in 1..Len(batch)}
        item(id) == batch[CHOOSE k \in 1..Len(batch) : batch[k].id = id]
    IN [id \in DOMAIN coll \cup ids |->
           IF id \in DOMAIN coll THEN coll[id]
           ELSE [text |-> item(id).text, metadata |-> item(id).metadata]]

\* what extraction and chunking yield for each edition (evaluated once)
ExtractedDocuments == [e \in Editions |-> load_all_pdfs(Files(e))]
ChunkItems ==
    [e \in Editions |-> build_items(ExtractedDocuments[e], 1, Len(ExtractedDocuments[e]))]

\* the early return with the flag inverted
already_indexed_inverted(coll, force_reindex) == count(coll) > 0 /\ force_reindex

\* the early return of index_documents
already_indexed(coll, force_reindex) == count(coll) > 0 /\ ~force_reindex

NoRun == [phase |-> "none", n |-> 0, force |-> FALSE, edition |-> "none",
          pre |-> [id \in {} |-> <<>>], items |-> <<>>, i |-> 0, adds |-> 0,
          failedAt |-> 0, outcome |-> "none", batch_size |-> batch_size]

NoSearch == [phase |-> "none", op |-> "none", query |-> "", n_results |-> 0, min_score |-> 0,
             count |-> 0, encoded |-> FALSE, queried |-> FALSE, failure |-> "none",
             neighbours |-> <<>>, found |-> <<>>, result |-> Returned(<<>>)]

NoBoot == [n |-> 0, count |-> 0, triggered |-> FALSE]

Summary(r) == [n |-> r.n, force |-> r.force, edition |-> r.edition, outcome |-> r.outcome]

\* a run that raises when no document was found
run_without_documents_raising(start) ==
    [start EXCEPT !.phase = "done", !.outcome = "raised"]

\* "Aucun document a indexer": the run returns, nothing was written
run_without_documents(start) ==
    [start EXCEPT !.phase = "done", !.outcome = "nodocs"]

\* index_documents up to the batch loop: the early returns, extraction and
\* chunking.  outcome: "skipped" (already indexed), "nodocs" (no document
\* found), "completed" (every batch written), "raised" (a batch failed)
index_documents_call(force_reindex) ==
    /\ run.phase # "batching"
    /\ run.n < MaxRuns
    /\ LET start == [NoRun EXCEPT !.n = run.n + 1, !.force = force_reindex,
                                  !.edition = corpus, !.pre = collection,
                                  !.batch_size = run.batch_size]
           documents == ExtractedDocuments[corpus]
           items == ChunkItems[corpus]
       IN run' = IF already_indexed(collection, force_reindex)
                 THEN [start EXCEPT !.phase = "done", !.outcome = "skipped"]
                 ELSE IF documents = <<>>
                 THEN run_without_documents(start)
                 ELSE IF items = <<>>
                 THEN [start EXCEPT !.phase = "done", !.outcome = "completed"]
                 ELSE [start EXCEPT !.phase = "batching", !.items = items]
    /\ prev' = Summary(run)
    /\ srch' = NoSearch
    /\ UNCHANGED <<ct, corpus, collection, xq, llm, tracker>>

\* index_documents called on a running application (agent.py main with
\* --reindex, or any other caller of the method)
index_documents_begin(force_reindex) ==
    /\ index_documents_call(force_reindex)
    /\ UNCHANGED boot

\* a start that indexes whatever the index holds
needs_indexing_always(coll) == TRUE

\* "Index documents if needed"
needs_indexing(coll) == count(coll) = 0

\* DnDAgent.__init__ (and DnDGUI.initialize_systems): the index is opened and
\* index_documents() is called when it is empty
startup ==
    /\ run.phase # "batching"
    /\ boot.n < MaxStarts
    /\ boot' = [n |-> boot.n + 1, count |-> count(collection),
                triggered |-> needs_indexing(collection)]
    /\ IF needs_indexing(collection)
       THEN index_documents_call(FALSE)
       ELSE /\ srch' = NoSearch
            /\ UNCHANGED <<ct, corpus, collection, run, prev, xq, llm, tracker>>

\* a batch that leaves out the last item of its range
batch_of_short(items, i, size) == slice(items, i, i + size - 1)

\* batch_texts, batch_metadatas, batch_ids: items[i:i + batch_size]
batch_of(items, i, size) == slice(items, i, i + size)

\* a run that does not leave the batch loop after its last batch
run_left_indexing(r) == r

\* the end of the batch loop: "Indexation terminee", the call returns
run_completed(r) == [r EXCEPT !.phase = "done", !.outcome = "completed"]

\* one iteration of the batch loop: encode the batch, add it
index_batch ==
    /\ run.phase = "batching"
    /\ run.i < Len(run.items)
    /\ LET batch == batch_of(run.items, run.i, run.batch_size)
           next == run.i + run.batch_size
       IN /\ collection' = collection_add(collection, batch)
          /\ run' = IF next < Len(run.items)
                    THEN [run EXCEPT !.i = next, !.adds = @ + 1]
                    ELSE run_completed([run EXCEPT !.i = next, !.adds = @ + 1])
    /\ srch' = NoSearch
    /\ UNCHANGED <<ct, corpus, prev, boot, xq, llm, tracker>>

\* a batch loop that logs the failure of a batch and goes on with the next
batch_failure_swallowed(r) ==
    [r EXCEPT !.failedAt = (r.i \div r.batch_size) + 1, !.i = @ + r.batch_size]

\* what a failing encode() or add() in the batch loop leads to: nothing
\* catches the exception, the call ends there
batch_failure(r) ==
    [r EXCEPT !.failedAt = (r.i \div r.batch_size) + 1,
              !.phase = "done", !.outcome = "raised"]

\* one iteration of the batch loop in which encode() or add() raises
index_batch_fails ==
    /\ run.phase = "batching"
    /\ run.i < Len(run.items)
    /\ run' = batch_failure(run)
    /\ srch' = NoSearch
    /\ UNCHANGED <<ct, corpus, collection, prev, boot, xq, llm, tracker>>

\* the data directory is replaced by another edition between two runs
change_corpus ==
    /\ run.phase # "batching"
    /\ run.n < MaxRuns
    /\ \E e \in Editions \ {corpus} : corpus' = e
    /\ srch' = NoSearch
    /\ UNCHANGED <<ct, collection, run, prev, boot, xq, llm, tracker>>

----------------------------------------------------------------------------
(* RAGSystem.search, get_context_for_query, search_rule *)

MaxNResults == 4     \* largest n_results argument
MaxOffset == 2       \* how many neighbour orders the index is tried with

default_min_score == 300     \* 0.3
keep_at_least == 3

Distances == {100, 400, 1200}
MinScores == {default_min_score, 500}
Queries == {"comment fonctionne la magie", "grapple"}

\* the non-decreasing sequences of distances, by length
AscendingDistances[k \in 0..(2 * (MaxNResults + 1))] ==
    IF k = 0 THEN {<<>>}
    ELSE UNION {{Append(ds, d) : d \in {x \in Distances : ds = <<>> \/ x >= ds[Len(ds)]}} :
                   ds \in AscendingDistances[k - 1]}

IdKey(id) ==
    LET c == CHOOSE i \in 3..Len(id) : id[i] = "_c"
    IN (CASE id[1] = pdf_files[1] -> 1 [] id[1] = pdf_files[2] -> 2 [] OTHER -> 3) * 1000000
       + int(SubSeq(id, 3, c - 1)) * 1000 + int(SubSeq(id, c + 1, Len(id)))

\* the first m ids in the order of their keys, keyed = the <<key, id>> pairs
RECURSIVE FirstIds(_, _)
FirstIds(keyed, m) ==
    IF m = 0 \/ keyed = {} THEN <<>>
    ELSE LET first == CHOOSE p \in keyed : \A q \in keyed : p[1] <= q[1]
         IN <<first[2]>> \o FirstIds(keyed \ {first}, m - 1)

\* collection.query(query_embeddings, n_results = k): the records the index
\* may return, nearest first.  Which records are nearest and how far they
\* are depends on the embedding model: every ascending sequence of
\* distances is tried, over MaxOffset choices of the nearest records
query_nearest(coll, k) ==
    LET m == Min(k, count(coll))
        ids == FirstIds({<<IdKey(id), id>> : id \in DOMAIN coll}, m + MaxOffset)
        pick(off, i) == ids[((off + i - 1) % Len(ids)) + 1]
    IN {[i \in 1..m |-> [id |-> pick(off, i), text |-> coll[pick(off, i)].text,
                         metadata |-> coll[pick(off, i)].metadata, distance |-> ds[i]]] :
           off \in 0..(Min(MaxOffset, Max(count(coll), 1)) - 1), ds \in AscendingDistances[m]}

\* the filter without the floor of three results
keeps_above_threshold_only(distance, min_score, formatted) ==
    distance < min_score /\ Len(formatted) < keep_at_least

\* line 288: the filter of the result loop
keeps(distance, min_score, formatted) ==
    distance < min_score \/ Len(formatted) < keep_at_least

\* the end of the result loop, one result late
stops_one_late(formatted, n_results) == Len(formatted) > n_results

\* line 295: the end of the result loop
stops(formatted, n_results) == Len(formatted) >= n_results

\* a score that is the distance itself
score_of_distance(distance) == distance

\* round(1 - distance, 3): "Convertir en score (plus haut = mieux)"
score_of(distance) == 1000 - distance

\* the loop over results['documents'][0]
RECURSIVE format_results(_, _, _, _, _)
format_results(neighbours, i, formatted, n_results, min_score) ==
    IF i > Len(neighbours) THEN formatted
    ELSE LET distance == neighbours[i].distance
             kept == IF keeps(distance, min_score, formatted)
                     THEN Append(formatted, [text |-> neighbours[i].text,
                                             metadata |-> neighbours[i].metadata,
                                             score |-> score_of(distance)])
                     ELSE formatted
         IN IF stops(kept, n_results) THEN kept
            ELSE format_results(neighbours, i + 1, kept, n_results, min_score)

\* search without its early return
index_is_empty_unchecked(coll) == FALSE

\* line 269: the early return of search
index_is_empty(coll) == count(coll) = 0

\* what search does with a failure of encode() or of collection.query():
\* nothing catches the exception
search_failure(error) == Raised(error)

\* a context whose blocks are in the reverse order of the results
context_of_reversed(results) ==
    LET block(r) == <<"[", r.metadata.source, " p.", r.metadata.page,
                      "] (pertinence: ", r.score, ")\n", r.text>>
    IN [i \in 1..(2 * Len(results) - 1) |->
           IF i % 2 = 1 THEN block(results[Len(results) + 1 - ((i + 1) \div 2)])
           ELSE "\n\n---\n\n"]

\* get_context_for_query: the blocks of the context string, "" being <<>>
context_of(results) ==
    LET block(r) == <<"[", r.metadata.source, " p.", r.metadata.page,
                      "] (pertinence: ", r.score, ")\n", r.text>>
    IN [i \in 1..(2 * Len(results) - 1) |->
           IF i % 2 = 1 THEN block(results[(i + 1) \div 2]) ELSE "\n\n---\n\n"]

\* a search_rule that puts the header before whatever context it got
rule_text_always_header(context) == <<"Regles trouvees:\n\n">> \o context

\* search_rule
rule_text(context) ==
    IF context = <<>>
    THEN <<"Aucune regle trouvee. Verifie que les documents sont indexes.">>
    ELSE <<"Regles trouvees:\n\n">> \o context

\* what the caller of op gets when search returns results
answer(op, results) ==
    CASE op = "search" -> Returned(results)
      [] op = "get_context_for_query" -> Returned(context_of(results))
      [] op = "search_rule" -> Returned(rule_text(context_of(results)))

\* one call of search, directly or through get_context_for_query or
\* search_rule.  failure: which external call raises, if any
search_call(op, query, n_results, min_score, failure) ==
    LET call == [NoSearch EXCEPT !.phase = "done", !.op = op, !.query = query,
                                 !.n_results = n_results, !.min_score = min_score,
                                 !.count = count(collection), !.failure = failure]
    IN /\ srch.phase = "none"
       /\ IF index_is_empty(collection)
          THEN /\ failure = "none"
               /\ srch' = [call EXCEPT !.result = answer(op, <<>>)]
          ELSE IF failure = "encode"
          THEN srch' = [call EXCEPT !.encoded = TRUE,
                                    !.result = search_failure("EmbeddingUnavailable")]
          ELSE IF failure = "query"
          THEN srch' = [call EXCEPT !.encoded = TRUE, !.queried = TRUE,
                                    !.result = search_failure("IndexUnavailable")]
          ELSE \E neighbours \in query_nearest(collection, n_results * 2) :
                  LET found == format_results(neighbours, 1, <<>>, n_results, min_score)
                  IN srch' = [call EXCEPT !.encoded = TRUE, !.queried = TRUE,
                                          !.neighbours = neighbours, !.found = found,
                                          !.result = answer(op, found)]
       /\ UNCHANGED <<ct, corpus, collection, run, prev, boot, xq, llm, tracker>>

\* the caller has used the value of the last call and goes on
call_returns ==
    /\ srch.phase = "done"
    /\ srch' = NoSearch
    /\ UNCHANGED <<ct, corpus, collection, run, prev, boot, xq, llm, tracker>>

Failures == {"none", "encode", "query"}

search ==
    \E query \in Queries, n_results \in 1..MaxNResults, min_score \in MinScores,
       failure \in Failures :
        search_call("search", query, n_results, min_score, failure)

get_context_for_query ==
    \E query \in Queries, n_results \in 1..MaxNResults, failure \in Failures :
        search_call("get_context_for_query", query, n_results, default_min_score, failure)

search_rule ==
    \E query \in Queries, failure \in Failures :
        search_call("search_rule", query, 4, default_min_score, failure)

----------------------------------------------------------------------------
(* Specification SpecChunk: chunk_text applied to bounded inputs *)

\* texts in which words are separated by one or more whitespace characters
RECURSIVE MessyTexts(_)
MessyTexts(n) ==
    IF n = 0 THEN {<<>>}
    ELSE LET shorter == MessyTexts(n - 1)
             longest == {t \in shorter : Len(t) = n - 1}
         IN shorter
            \cup {Append(t, SP) : t \in longest}
            \cup {Append(t, n) : t \in {u \in longest : Len(u) = 0 \/ u[Len(u)] = SP}}

TextInputs == {join(Words(0, n)) : n \in 0..MaxWords} \cup MessyTexts(MaxMessy)

InitChunk ==
    /\ \E text \in TextInputs, chunk_size \in 1..MaxChunkSize, overlap \in 0..MaxOverlap :
          ct = [phase |-> "args", text |-> text, chunk_size |-> chunk_size, overlap |-> overlap]
    /\ corpus = "none"
    /\ collection = [id \in {} |-> <<>>]
    /\ run = NoRun
    /\ prev = Summary(NoRun)
    /\ srch = NoSearch
    /\ boot = NoBoot
    /\ xq = Idle /\ llm = Idle /\ tracker = Idle

ChunkCall ==
    /\ ct.phase = "args"
    /\ ct' = [ct EXCEPT !.phase = "done"] @@
             [result |-> chunk_text(ct.text, ct.chunk_size, ct.overlap)]
    /\ UNCHANGED ragvars

NextChunk == ChunkCall

SpecChunk == InitChunk /\ [][NextChunk]_vars

----------------------------------------------------------------------------
(* Specification SpecSearch: queries against an index persisted earlier *)

MaxRecords == 9      \* records of the largest persisted index

\* the index left by a process that indexed the first k pages of "many"
PersistedIndex(k) == collection_add([id \in {} |-> <<>>], slice(ChunkItems["many"], 0, k))

InitSearch ==
    /\ ct = [phase |-> "none"]
    /\ corpus = "many"
    /\ \E k \in 0..MaxRecords : collection = PersistedIndex(k)
    /\ run = NoRun
    /\ prev = Summary(NoRun)
    /\ srch = NoSearch
    /\ boot = NoBoot
    /\ xq = Idle /\ llm = Idle /\ tracker = Idle

NextSearch ==
    \/ search
    \/ get_context_for_query
    \/ search_rule
    \/ call_returns

SpecSearch == InitSearch /\ [][NextSearch]_vars

----------------------------------------------------------------------------
(* Specification SpecBatch: index_documents with other values of batch_size *)

MaxBatchSize == 3    \* largest batch size tried besides the one of the code

BatchSizes == (1..MaxBatchSize) \cup {batch_size}

InitBatch ==
    /\ ct = [phase |-> "none"]
    /\ corpus \in Editions
    /\ collection = [id \in {} |-> <<>>]
    /\ \E size \in BatchSizes : run = [NoRun EXCEPT !.batch_size = size]
    /\ prev = Summary(NoRun)
    /\ srch = NoSearch
    /\ boot = NoBoot
    /\ xq = Idle /\ llm = Idle /\ tracker = Idle

NextBatch ==
    \/ index_documents_begin(FALSE)
    \/ index_batch

SpecBatch == InitBatch /\ [][NextBatch]_vars

----------------------------------------------------------------------------
(* Specification SpecInterleave: a second process (the GUI next to the      *)
(* command line agent) searches the persisted index while a run writes it   *)

MaxReadResults == 2  \* largest n_results of a search of the second process

\* a search of the second process
read ==
    \E n_results \in 1..MaxReadResults :
        search_call("search", "grapple", n_results, default_min_score, "none")

InitInterleave ==
    /\ ct = [phase |-> "none"]
    /\ corpus \in Editions
    /\ collection = [id \in {} |-> <<>>]
    /\ run = NoRun
    /\ prev = Summary(NoRun)
    /\ srch = NoSearch
    /\ boot = NoBoot
    /\ xq = Idle /\ llm = Idle /\ tracker = Idle

NextInterleave ==
    \/ \E force_reindex \in BOOLEAN : index_documents_begin(force_reindex)
    \/ index_batch
    \/ index_batch_fails
    \/ read
    \/ call_returns

SpecInterleave == InitInterleave /\ [][NextInterleave]_vars

----------------------------------------------------------------------------
(* Specification SpecRun: index_documents calls that are left to run.  An   *)
(* iteration of the batch loop that has started ends: encode() and add()    *)
(* return or raise                                                          *)

InitRun ==
    /\ ct = [phase |-> "none"]
    /\ corpus \in Editions
    /\ collection = [id \in {} |-> <<>>]
    /\ run = NoRun
    /\ prev = Summary(NoRun)
    /\ srch = NoSearch
    /\ boot = NoBoot
    /\ xq = Idle /\ llm = Idle /\ tracker = Idle

NextRun ==
    \/ \E force_reindex \in BOOLEAN : index_documents_begin(force_reindex)
    \/ index_batch
    \/ index_batch_fails

SpecRun == InitRun /\ [][NextRun]_vars /\ WF_vars(index_batch \/ index_batch_fails)

----------------------------------------------------------------------------
(* DnDAssistantModel (src/tools/model.py): the choice of the LLM backend *)

MaxConstructions == 2    \* DnDAssistantModel objects built in one behaviour

ModelNames == {"llama2", "qwen3-4b-thinking"}

\* servers: which of the two local servers answers at the moment
NoModel == [phase |-> "none", n |-> 0, use_ollama |-> FALSE, model_name |-> "",
            ollama |-> FALSE, lmstudio |-> FALSE, active |-> "None", backend |-> "None",
            servers |-> [ollama |-> FALSE, lmstudio |-> FALSE]]

\* DnDAssistantModel(use_ollama, model_name): self.config
DnDAssistantModel(use_ollama, model_name) ==
    /\ llm.phase \in {"none", "ready"}
    /\ llm.n < MaxConstructions
    /\ llm' = [NoModel EXCEPT !.phase = "config", !.n = llm.n + 1,
                              !.use_ollama = use_ollama, !.model_name = model_name,
                              !.servers = llm.servers]
    /\ UNCHANGED <<ct, corpus, collection, run, prev, srch, boot, xq, tracker>>

\* OllamaModel.__init__: self.is_available = self.check_availability()
OllamaModel ==
    /\ llm.phase = "config"
    /\ llm' = [llm EXCEPT !.phase = "ollama", !.ollama = llm.servers.ollama]
    /\ UNCHANGED <<ct, corpus, collection, run, prev, srch, boot, xq, tracker>>

\* LMStudioModel.__init__: self.is_available = self.check_availability()
LMStudioModel ==
    /\ llm.phase = "ollama"
    /\ llm' = [llm EXCEPT !.phase = "lmstudio", !.lmstudio = llm.servers.lmstudio]
    /\ UNCHANGED <<ct, corpus, collection, run, prev, srch, boot, xq, tracker>>

\* "Selection du backend disponible": active_model and backend
select_backend(m) ==
    IF m.lmstudio
    THEN [m EXCEPT !.phase = "ready", !.active = "lmstudio", !.backend = "LM Studio"]
    ELSE [m EXCEPT !.phase = "ready", !.active = "None", !.backend = "None"]

backend_selected ==
    /\ llm.phase = "lmstudio"
    /\ llm' = select_backend(llm)
    /\ UNCHANGED <<ct, corpus, collection, run, prev, srch, boot, xq, tracker>>

\* DnDAssistantModel.is_available()
is_available(m) == m.active # "None"

\* a local server is started or stopped
server_changes ==
    /\ \E server \in {"ollama", "lmstudio"} :
          llm' = [llm EXCEPT !.servers[server] = ~llm.servers[server]]
    /\ UNCHANGED <<ct, corpus, collection, run, prev, srch, boot, xq, tracker>>

----------------------------------------------------------------------------
(* Specification SpecModel: DnDAssistantModel objects built by the agent    *)
(* and by the GUI                                                           *)

InitModel ==
    /\ ct = [phase |-> "none"]
    /\ corpus = "none"
    /\ collection = [id \in {} |-> <<>>]
    /\ run = NoRun
    /\ prev = Summary(NoRun)
    /\ srch = NoSearch
    /\ boot = NoBoot
    /\ xq = Idle /\ tracker = Idle
    /\ llm = NoModel

NextModel ==
    \/ \E use_ollama \in BOOLEAN, model_name \in ModelNames :
          DnDAssistantModel(use_ollama, model_name)
    \/ OllamaModel
    \/ LMStudioModel
    \/ backend_selected
    \/ server_changes

SpecModel == InitModel /\ [][NextModel]_vars

----------------------------------------------------------------------------
(* InitiativeTracker (src/tools/UserGUI/GUI.py) *)

MaxCreatures == 2    \* longest creature list
MaxRounds == 3       \* highest round_number that next_turn is called in

min_initiative == 0
max_initiative == 40
min_roll == 1
max_roll == 20

\* the names and initiatives typed into the form: blank and padded names,
\* initiatives on and outside the limits
NameInputs == {<<SP>>, <<1>>, <<SP, 2>>}
InitInputs == {min_initiative - 1, min_initiative, max_initiative, max_initiative + 1}
Rolls == {min_roll, max_roll}

\* InitiativeTracker.__init__
InitiativeTracker == [creatures |-> <<>>, current_index |-> 0, round_number |-> 1]

\* creatures.sort(key=initiative, reverse=True): a stable sort, creatures of
\* equal initiative keep their order
RECURSIVE sort_by_initiative(_)
sort_by_initiative(creatures) ==
    IF creatures = <<>> THEN <<>>
    ELSE LET c == Head(creatures)
             rest == sort_by_initiative(Tail(creatures))
             k == Cardinality({j \in 1..Len(rest) : rest[j].initiative > c.initiative})
         IN SubSeq(rest, 1, k) \o <<c>> \o SubSeq(rest, k + 1, Len(rest))

\* the value that add() returns
add_accepts(name, init) ==
    min_initiative <= init /\ init <= max_initiative /\ strip(name) # <<>>

add(t, name, init) ==
    IF add_accepts(name, init)
    THEN [t EXCEPT !.creatures =
             sort_by_initiative(Append(t.creatures,
                                       [name |-> strip(name), initiative |-> init]))]
    ELSE t

\* the value that remove() returns
remove_accepts(t, index) == 0 <= index /\ index < Len(t.creatures)

\* creatures.pop(index)
pop(creatures, index) ==
    SubSeq(creatures, 1, index) \o SubSeq(creatures, index + 2, Len(creatures))

\* remove that leaves current_index as it is
remove_keeping_index(t, index) ==
    IF remove_accepts(t, index)
    THEN [t EXCEPT !.creatures = pop(t.creatures, index)]
    ELSE t

remove(t, index) ==
    IF remove_accepts(t, index)
    THEN LET left == pop(t.creatures, index)
         IN [t EXCEPT !.creatures = left,
                      !.current_index = IF t.current_index >= Len(left)
                                        THEN Max(0, Len(left) - 1)
                                        ELSE t.current_index]
    ELSE t

next_turn(t) ==
    IF t.creatures # <<>>
    THEN LET index == (t.current_index + 1) % Len(t.creatures)
         IN [t EXCEPT !.current_index = index,
                      !.round_number = IF index = 0 THEN t.round_number + 1
                                       ELSE t.round_number]
    ELSE t

\* prev_turn that steps back over a round boundary without lowering the round
prev_turn_keeping_round(t) ==
    IF t.creatures # <<>>
    THEN IF t.current_index = 0 /\ t.round_number > 1
         THEN [t EXCEPT !.current_index = Len(t.creatures) - 1]
         ELSE IF t.current_index > 0
              THEN [t EXCEPT !.current_index = t.current_index - 1]
              ELSE t
    ELSE t

prev_turn(t) ==
    IF t.creatures # <<>>
    THEN IF t.current_index = 0 /\ t.round_number > 1
         THEN [t EXCEPT !.round_number = t.round_number - 1,
                        !.current_index = Len(t.creatures) - 1]
         ELSE IF t.current_index > 0
              THEN [t EXCEPT !.current_index = t.current_index - 1]
              ELSE t
    ELSE t

\* get_current(): the creature at current_index (a one-element tuple), None
\* (the empty tuple) for an empty list, IndexError for an index outside the list
get_current(t) ==
    IF t.creatures = <<>> THEN Returned(<<>>)
    ELSE IF 0 - Len(t.creatures) <= t.current_index /\ t.current_index < Len(t.creatures)
         THEN Returned(<<t.creatures[(t.current_index % Len(t.creatures)) + 1]>>)
         ELSE Raised("IndexError")

clear(t) == InitiativeTracker

\* roll_all_initiative: every creature gets the roll drawn for its place,
\* then the list is sorted again
roll_all(t, rolls) ==
    [t EXCEPT !.creatures =
        sort_by_initiative([k \in 1..Len(t.creatures) |->
                               [t.creatures[k] EXCEPT !.initiative = rolls[k]]])]

\* the tracker itself, without the record of the calls made on it
State(t) == [creatures |-> t.creatures, current_index |-> t.current_index,
             round_number |-> t.round_number]

NoCall == [op |-> "none", name |-> <<>>, init |-> 0, index |-> 0, returned |-> FALSE,
           was |-> InitiativeTracker]
NoEarlier == [op |-> "none", current_index |-> 0, round_number |-> 1]

\* the tracker after a call: `call` is the call just made and the tracker it
\* was made on, `earlier` the call before it
called(op, name, init, index, returned, after) ==
    [phase |-> "ready", creatures |-> after.creatures,
     current_index |-> after.current_index, round_number |-> after.round_number,
     call |-> [op |-> op, name |-> name, init |-> init, index |-> index,
               returned |-> returned, was |-> State(tracker)],
     earlier |-> [op |-> tracker.call.op,
                  current_index |-> tracker.call.was.current_index,
                  round_number |-> tracker.call.was.round_number]]

call_add ==
    /\ Len(tracker.creatures) < MaxCreatures
    /\ \E name \in NameInputs, init \in InitInputs :
          tracker' = called("add", name, init, 0, add_accepts(name, init),
                            add(State(tracker), name, init))
    /\ UNCHANGED <<ct, corpus, collection, run, prev, srch, boot, xq, llm>>

call_remove ==
    /\ \E index \in (0 - 1)..MaxCreatures :
          tracker' = called("remove", <<>>, 0, index, remove_accepts(State(tracker), index),
                            remove(State(tracker), index))
    /\ UNCHANGED <<ct, corpus, collection, run, prev, srch, boot, xq, llm>>

call_next_turn ==
    /\ tracker.round_number < MaxRounds
    /\ tracker' = called("next_turn", <<>>, 0, 0, FALSE, next_turn(State(tracker)))
    /\ UNCHANGED <<ct, corpus, collection, run, prev, srch, boot, xq, llm>>

call_prev_turn ==
    /\ tracker' = called("prev_turn", <<>>, 0, 0, FALSE, prev_turn(State(tracker)))
    /\ UNCHANGED <<ct, corpus, collection, run, prev, srch, boot, xq, llm>>

call_clear ==
    /\ tracker' = called("clear", <<>>, 0, 0, FALSE, clear(State(tracker)))
    /\ UNCHANGED <<ct, corpus, collection, run, prev, srch, boot, xq, llm>>

roll_all_initiative ==
    /\ \E rolls \in [1..Len(tracker.creatures) -> Rolls] :
          tracker' = called("roll_all", <<>>, 0, 0, FALSE, roll_all(State(tracker), rolls))
    /\ UNCHANGED <<ct, corpus, collection, run, prev, srch, boot, xq, llm>>

----------------------------------------------------------------------------
(* Specification SpecTracker: calls on the initiative tracker of the GUI *)

InitTracker ==
    /\ ct = [phase |-> "none"]
    /\ corpus = "none"
    /\ collection = [id \in {} |-> <<>>]
    /\ run = NoRun
    /\ prev = Summary(NoRun)
    /\ srch = NoSearch
    /\ boot = NoBoot
    /\ xq = Idle /\ llm = Idle
    /\ tracker = [phase |-> "ready", creatures |-> <<>>, current_index |-> 0,
                  round_number |-> 1, call |-> NoCall, earlier |-> NoEarlier]

NextTracker ==
    \/ call_add
    \/ call_remove
    \/ call_next_turn
    \/ call_prev_turn
    \/ call_clear
    \/ roll_all_initiative

SpecTracker == InitTracker /\ [][NextTracker]_vars

----------------------------------------------------------------------------
(* Specification Spec: ingestion runs over the editions of the data directory *)

Init ==
    /\ ct = [phase |-> "none"]
    /\ corpus \in Editions
    /\ collection = [id \in {} |-> <<>>]
    /\ run = NoRun
    /\ prev = Summary(NoRun)
    /\ srch = NoSearch
    /\ boot = NoBoot
    /\ xq = Idle /\ llm = Idle /\ tracker = Idle

Next ==
    \/ \E force_reindex \in BOOLEAN : index_documents_begin(force_reindex)
    \/ index_batch
    \/ index_batch_fails
    \/ change_corpus
    \/ startup

Spec == Init /\ [][Next]_vars

----------------------------------------------------------------------------
(* RAGSystem._expand_query *)

\* A query is a sequence of characters; a synonym is one token

MaxFragments == 3    \* fragments a query of SpecExpand is made of

\* the mapping, in the order of the dict: <<french_term, english_terms>>
DND_SYNONYMS ==
    <<
       <<<<"a", "t", "t", "a", "q", "u", "e">>,
         <<"attack", "hit", "strike", "damage", "melee", "ranged">>>>,
       <<<<"d", "e", "f", "e", "n", "s", "e">>,
         <<"armor", "ac", "shield", "protection", "defense">>>>,
       <<<<"m", "a", "g", "i", "e">>,
         <<"magic", "spell", "spellcasting", "arcane", "divine", "magical">>>>,
       <<<<"s", "o", "r", "t">>,
         <<"spell", "cantrip", "magic", "incantation">>>>,
       <<<<"m", "o", "n", "s", "t", "r", "e">>,
         <<"monster", "creature", "beast", "enemy", "foe">>>>,
       <<<<"c", "o", "m", "b", "a", "t">>,
         <<"combat", "battle", "fight", "initiative", "round", "turn">>>>,
       <<<<"j", "e", "t">>,
         <<"roll", "check", "save", "saving throw", "dice">>>>,
       <<<<"s", "a", "u", "v", "e", "g", "a", "r", "d", "e">>,
         <<"save", "saving throw", "constitution", "dexterity", "wisdom">>>>,
       <<<<"c", "o", "m", "p", "e", "t", "e", "n", "c", "e">>,
         <<"skill", "ability", "proficiency", "check">>>>,
       <<<<"n", "i", "v", "e", "a", "u">>,
         <<"level", "tier", "class level">>>>,
       <<<<"c", "l", "a", "s", "s", "e">>,
         <<"class", "fighter", "wizard", "rogue", "cleric", "barbarian", "bard", "druid", "monk", "paladin", "ranger", "sorcerer", "warlock">>>>,
       <<<<"r", "a", "c", "e">>,
         <<"race", "species", "elf", "dwarf", "human", "halfling", "gnome", "dragonborn", "tiefling", "half-orc", "half-elf">>>>,
       <<<<"e", "q", "u", "i", "p", "e", "m", "e", "n", "t">>,
         <<"equipment", "gear", "weapon", "armor", "item">>>>,
       <<<<"a", "r", "m", "e">>,
         <<"weapon", "sword", "bow", "axe", "dagger", "mace", "staff">>>>,
       <<<<"d", "e", "g", "a", "t">>,
         <<"damage", "harm", "hurt", "hit points", "hp">>>>,
       <<<<"s", "o", "i", "n">>,
         <<"heal", "healing", "cure", "restore", "hit points", "recovery">>>>,
       <<<<"m", "o", "u", "v", "e", "m", "e", "n", "t">>,
         <<"movement", "speed", "move", "walk", "dash", "disengage">>>>,
       <<<<"a", "c", "t", "i", "o", "n">>,
         <<"action", "bonus action", "reaction", "free action">>>>,
       <<<<"r", "e", "p", "o", "s">>,
         <<"rest", "short rest", "long rest", "recovery">>>>,
       <<<<"c", "o", "n", "d", "i", "t", "i", "o", "n">>,
         <<"condition", "status", "blinded", "charmed", "frightened", "paralyzed", "poisoned", "prone", "stunned", "unconscious", "exhaustion">>>>,
       <<<<"a", "v", "a", "n", "t", "a", "g", "e">>,
         <<"advantage", "disadvantage">>>>,
       <<<<"c", "o", "n", "c", "e", "n", "t", "r", "a", "t", "i", "o", "n">>,
         <<"concentration", "maintain", "spell concentration">>>>,
       <<<<"o", "p", "p", "o", "r", "t", "u", "n", "i", "t", "e">>,
         <<"opportunity", "opportunity attack", "reaction">>>>,
       <<<<"c", "o", "u", "v", "e", "r", "t", "u", "r", "e">>,
         <<"cover", "half cover", "three-quarters cover", "total cover">>>>,
       <<<<"l", "u", "m", "i", "e", "r", "e">>,
         <<"light", "darkness", "dim light", "bright light", "darkvision", "blindsight">>>>,
       <<<<"a", "l", "i", "g", "n", "e", "m", "e", "n", "t">>,
         <<"alignment", "lawful", "chaotic", "good", "evil", "neutral">>>>,
       <<<<"m", "o", "r", "t">>,
         <<"death", "dying", "death save", "unconscious", "stabilize">>>>,
       <<<<"c", "r", "i", "t", "i", "q", "u", "e">>,
         <<"critical", "critical hit", "natural 20", "crit">>>>,
       <<<<"r", "e", "s", "i", "s", "t", "a", "n", "c", "e">>,
         <<"resistance", "immunity", "vulnerability">>>>,
       <<<<"m", "u", "l", "t", "i", "c", "l", "a", "s", "s", "e">>,
         <<"multiclass", "multiclassing", "multi-class">>>>,
       <<<<"c", "a", "r", "a", "c", "t", "e", "r", "i", "s", "t", "i", "q", "u", "e">>,
         <<"ability", "ability score", "strength", "dexterity", "constitution", "intelligence", "wisdom", "charisma", "stat">>>>,
       <<<<"p", "v">>,
         <<"hit points", "hp", "health", "life">>>>,
       <<<<"c", "a">>,
         <<"armor class", "ac", "defense">>>>,
       <<<<"i", "n", "i", "t", "i", "a", "t", "i", "v", "e">>,
         <<"initiative", "turn order", "combat order">>>>,
       <<<<"t", "e", "r", "r", "a", "i", "n">>,
         <<"terrain", "difficult terrain", "movement">>>>,
       <<<<"v", "i", "s", "i", "o", "n">>,
         <<"vision", "sight", "darkvision", "blindsight", "truesight">>>>
    >>

UpperCase ==
    <<"A", "B", "C", "D", "E", "F", "G", "H", "I", "J", "K", "L", "M", "N", "O", "P", "Q", "R", "S", "T", "U", "V", "W", "X", "Y", "Z">>
LowerCase ==
    <<"a", "b", "c", "d", "e", "f", "g", "h", "i", "j", "k", "l", "m", "n", "o", "p", "q", "r", "s", "t", "u", "v", "w", "x", "y", "z">>

\* query.lower()
lower(query) ==
    [i \in 1..Len(query) |->
        IF \E k \in 1..Len(UpperCase) : UpperCase[k] = query[i]
        THEN LowerCase[CHOOSE k \in 1..Len(UpperCase) : UpperCase[k] = query[i]]
        ELSE query[i]]

\* french_term in query_lower
contains(query_lower, french_term) ==
    \E i \in 0..(Len(query_lower) - Len(french_term)) :
        SubSeq(query_lower, i + 1, i + Len(french_term)) = french_term

\* a slice that keeps three synonyms
first_synonyms_three(english_terms) == SubSeq(english_terms, 1, Min(3, Len(english_terms)))

\* english_terms[:2]
first_synonyms(english_terms) == SubSeq(english_terms, 1, Min(2, Len(english_terms)))

\* the loop over DND_SYNONYMS.items(), from entry k on: what it appends
RECURSIVE expanded_terms(_, _)
expanded_terms(query_lower, k) ==
    IF k > Len(DND_SYNONYMS) THEN <<>>
    ELSE (IF contains(query_lower, DND_SYNONYMS[k][1])
          THEN first_synonyms(DND_SYNONYMS[k][2]) ELSE <<>>)
         \o expanded_terms(query_lower, k + 1)

\* ' '.join([query] + appended terms)
_expand_query(query) ==
    LET terms == expanded_terms(lower(query), 1)
    IN query \o [i \in 1..(2 * Len(terms)) |-> IF i % 2 = 1 THEN " " ELSE terms[i \div 2]]

----------------------------------------------------------------------------
(* Specification SpecExpand: _expand_query applied to bounded queries *)

Fragments ==
    { <<"m", "a", "g", "i", "e">>, <<"M", "a", "G", "I", "E">>, <<"s", "o", "r", "t">>,
      <<"c", "o", "m">>, <<"b", "a", "t">>, <<"c", "a">>, <<" ">>, <<"x">> }

\* the queries made of at most n fragments
RECURSIVE QueryTexts(_)
QueryTexts(n) ==
    IF n = 0 THEN {<<>>}
    ELSE QueryTexts(n - 1) \cup {q \o f : q \in QueryTexts(n - 1), f \in Fragments}

InitExpand ==
    /\ ct = [phase |-> "none"]
    /\ corpus = "none"
    /\ collection = [id \in {} |-> <<>>]
    /\ run = NoRun
    /\ prev = Summary(NoRun)
    /\ srch = NoSearch
    /\ boot = NoBoot
    /\ \E query \in QueryTexts(MaxFragments) : xq = [phase |-> "args", query |-> query]
    /\ llm = Idle /\ tracker = Idle

ExpandCall ==
    /\ xq.phase = "args"
    /\ xq' = [phase |-> "done", query |-> xq.query, result |-> _expand_query(xq.query)]
    /\ UNCHANGED <<ct, corpus, collection, run, prev, srch, boot, llm, tracker>>

NextExpand == ExpandCall

SpecExpand == InitExpand /\ [][NextExpand]_vars

----------------------------------------------------------------------------
(* Properties *)

Indexed(items) == collection_add([id \in {} |-> <<>>], items)

\* C1 (Spec): a second index_documents(force_reindex=False) on an index that
\* a complete run populated from the same corpus is skipped: it makes no
\* add() call and leaves the stored records (ids and texts) as they were
C1_IdempotentIngestion ==
    (/\ run.phase # "none" /\ ~run.force
     /\ prev.outcome = "completed" /\ prev.edition = run.edition
     /\ count(run.pre) > 0)
    => /\ run.phase = "done" /\ run.outcome = "skipped"
       /\ run.adds = 0
       /\ collection = run.pre

C1_Witness ==
    /\ run.phase = "done" /\ run.n >= 2 /\ ~run.force
    /\ prev.outcome = "completed" /\ prev.edition = run.edition
    /\ count(run.pre) > 0 /\ count(collection) = count(run.pre)

\* C2 (Spec): when index_documents(force_reindex=True) ends without error the
\* index holds exactly the records derived from the current corpus, no
\* record from before the run survives (count() = 0 for an empty corpus)
C2_ForcedReindexRebuilds ==
    (run.phase = "done" /\ run.force /\ run.outcome # "raised")
    => collection = Indexed(ChunkItems[run.edition])

\* the windows words[a:b] of the 600-word page of the scenario
ScenarioWindow(a, b) == join(slice(Words(0, 600), a, b))

StoredTexts == {collection[id].text : id \in DOMAIN collection}

ScenarioIngested ==
    /\ run.phase = "done" /\ run.outcome = "completed"
    /\ run.edition = "scenario" /\ count(run.pre) = 0

\* C3 as stated (Spec): ingesting the single 600-word page yields exactly the
\* 3 chunks [0:250], [175:425], [350:600] and count() = 3
C3_ThreeChunks ==
    ScenarioIngested
    => /\ count(collection) = 3
       /\ StoredTexts = {ScenarioWindow(0, 250), ScenarioWindow(175, 425),
                         ScenarioWindow(350, 600)}

\* C3 amended (Spec): ingesting the single 600-word page yields exactly 4
\* chunks, [0:250], [175:425], [350:600] and the trailing window [525:600],
\* stored under chunk indexes 0..3 in that order, and count() = 4
C3_FourChunks ==
    ScenarioIngested
    => /\ count(collection) = 4
       /\ \A k \in 0..3 :
             /\ chunk_id(pdf_files[1], 1, k) \in DOMAIN collection
             /\ collection[chunk_id(pdf_files[1], 1, k)].text =
                   ScenarioWindow(k * 175, Min(k * 175 + 250, 600))

C3_Witness == ScenarioIngested /\ count(collection) > 0

\* C4 (SpecChunk): chunk_text with overlap >= chunk_size raises, whatever the
\* text; it never returns a list of chunks
C4_InvalidConfigurationRejected ==
    (ct.phase = "done" /\ ct.overlap >= ct.chunk_size) => ct.result.kind = "raise"

SearchReturned == srch.phase = "done" /\ srch.failure = "none"

\* C5 (SpecSearch): while fewer than n_results results are kept, no fetched
\* neighbour whose score 1 - distance reaches min_score is dropped
C5_ScoreThreshold ==
    (SearchReturned /\ Len(srch.found) < srch.n_results)
    => \A i \in 1..Len(srch.neighbours) :
          1000 - srch.neighbours[i].distance >= srch.min_score
          => \E j \in 1..Len(srch.found) :
                /\ srch.found[j].text = srch.neighbours[i].text
                /\ srch.found[j].metadata = srch.neighbours[i].metadata

\* C6 (SpecSearch): on a non-empty index a search with n_results >= 3 returns
\* at least min(3, count()) results, whatever the distances
C6_RelevanceFloor ==
    (SearchReturned /\ srch.n_results >= 3 /\ srch.count > 0)
    => Len(srch.found) >= Min(3, srch.count)

C6_Witness ==
    /\ SearchReturned /\ srch.op = "search" /\ srch.n_results >= 3 /\ srch.count >= 5
    /\ \A i \in 1..Len(srch.neighbours) :
          /\ srch.neighbours[i].distance >= srch.min_score
          /\ 1000 - srch.neighbours[i].distance < srch.min_score
    /\ Len(srch.found) = 3

\* C7 (SpecSearch): search returns at most n_results results, also for
\* n_results of 1 or 2
C7_AtMostNResults ==
    SearchReturned => Len(srch.found) <= srch.n_results

C7_Witness ==
    /\ SearchReturned /\ srch.op = "search" /\ srch.n_results < 3
    /\ Len(srch.neighbours) > srch.n_results
    /\ Len(srch.found) = srch.n_results

\* C8 (SpecSearch): on an empty index search returns the empty list and
\* neither encode() nor collection.query() is called
C8_EmptyIndexShortCircuit ==
    (srch.phase = "done" /\ srch.count = 0)
    => /\ ~srch.encoded /\ ~srch.queried
       /\ srch.found = <<>>
       /\ srch.op = "search" => srch.result = Returned(<<>>)

C8_Witness ==
    /\ srch.phase = "done" /\ srch.op = "search" /\ srch.count = 0
    /\ srch.result = Returned(<<>>)

\* C9 (SpecSearch): when encode() or collection.query() fails during a call
\* of search, get_context_for_query or search_rule, the call returns (an
\* empty result set or empty context) instead of raising
C9_FailureDegradesToNoContext ==
    (srch.phase = "done" /\ srch.failure # "none")
    => /\ srch.result.kind = "return"
       /\ srch.found = <<>>

\* C10 (Spec): when batch k fails the run ends there with the error, k - 1
\* add() calls were made, the records of batches 1..k-1 are in the index and
\* no record of a batch after k was written
C10_BatchFailure ==
    LET k == run.failedAt
        items == run.items
    IN k > 0
       => /\ run.phase = "done" /\ run.outcome = "raised"
          /\ run.adds = k - 1
          /\ \A j \in 1..Min((k - 1) * batch_size, Len(items)) :
                /\ items[j].id \in DOMAIN collection
                /\ items[j].id \notin DOMAIN run.pre
                   => collection[items[j].id].text = items[j].text
          /\ \A j \in (k * batch_size + 1)..Len(items) :
                items[j].id \in DOMAIN collection => items[j].id \in DOMAIN run.pre

C10_Witness ==
    /\ run.failedAt = 2 /\ run.phase = "done"
    /\ count(run.pre) = 0 /\ count(collection) = batch_size
    /\ Len(run.items) > 2 * batch_size

\* C11 (Spec): a run that gets past the early return and whose extraction
\* yields no document, or documents without any chunk, ends without raising
\* and without an add() call, and the index holds the records it held before
C11_ZeroChunkRunIsNoOp ==
    (/\ run.phase # "none"
     /\ ~already_indexed(run.pre, run.force)
     /\ ChunkItems[run.edition] = <<>>)
    => /\ run.phase = "done" /\ run.outcome \in {"nodocs", "completed"}
       /\ run.adds = 0 /\ run.failedAt = 0
       /\ collection = run.pre

C11_Witness ==
    /\ run.phase = "done" /\ run.force /\ count(run.pre) > 0
    /\ ExtractedDocuments[run.edition] # <<>> /\ ChunkItems[run.edition] = <<>>
    /\ run.outcome = "completed"
    /\ collection = run.pre

\* C12 (Spec): a start of the application calls index_documents() (not
\* forced) exactly when count() is 0 at that moment; a start on a populated
\* index calls nothing and leaves the index as it is
C12_StartupAutoIndexing ==
    [][boot'.n = boot.n + 1
       => /\ boot'.triggered <=> count(collection) = 0
          /\ boot'.triggered => (run'.n = run.n + 1 /\ ~run'.force)
          /\ count(collection) > 0 => (collection' = collection /\ run' = run)]_vars

C12_Witness ==
    /\ boot.n >= 1 /\ boot.count > 0 /\ ~boot.triggered
    /\ run.n = 1 /\ run.outcome = "completed" /\ ~run.force
    /\ collection = Indexed(run.items)

Configured == {pdf_files[1], pdf_files[2], ref_file}

\* the documents of one source among those extracted from an edition
DocumentsOf ==
    [e \in Editions |-> [f \in Configured |->
        SelectSeq(ExtractedDocuments[e], LAMBDA d : d.source = f)]]

\* what extraction yields for one file of an edition when it is the only
\* file of the data directory
AloneDocuments ==
    [e \in Editions |-> [f \in Configured |->
        load_all_pdfs([NoFiles EXCEPT ![f] = Files(e)[f]])]]

\* C13 (Spec): in a run that gets to extraction, a configured document that
\* is missing or whose extraction raises yields no page at all, the run does
\* not abort because of it, and every other readable document yields the
\* pages it yields on its own, which a complete run from an empty index
\* stores
C13_PerDocumentFailureTolerance ==
    (run.phase # "none" /\ ~already_indexed(run.pre, run.force))
    => /\ \A f \in Configured :
             (~Files(run.edition)[f].exists \/ Files(run.edition)[f].failAt > 0)
             => DocumentsOf[run.edition][f] = <<>>
       /\ run.outcome = "raised" => run.failedAt > 0
       /\ \A g \in Configured :
             (Files(run.edition)[g].exists /\ Files(run.edition)[g].failAt = 0)
             => /\ DocumentsOf[run.edition][g] = AloneDocuments[run.edition][g]
                /\ (run.outcome = "completed" /\ count(run.pre) = 0)
                   => \A k \in 1..Len(run.items) :
                         run.items[k].metadata.source = g
                         => run.items[k].id \in DOMAIN collection

\* a finished chunk_text call with overlap < chunk_size on a text of more
\* than chunk_size words
Windowed ==
    /\ ct.phase = "done" /\ ct.overlap < ct.chunk_size
    /\ Len(split(ct.text)) > ct.chunk_size

\* the words of chunk number i (from 0) of the result
ChunkWords(i) == split(ct.result.value[i + 1])

\* how many words chunks number i and i + 1 have in common (the words of
\* the texts of SpecChunk are distinct)
SharedWords(i) ==
    Cardinality({ChunkWords(i)[j] : j \in 1..Len(ChunkWords(i))}
                \cap {ChunkWords(i + 1)[j] : j \in 1..Len(ChunkWords(i + 1))})

\* chunk number i starts at word index i * (chunk_size - overlap) and holds
\* the next chunk_size words, fewer only at the end of the text; there is a
\* chunk for every start below the number of words
WindowsInPlace ==
    LET words == split(ct.text)
        step == ct.chunk_size - ct.overlap
        n == Len(ct.result.value)
    IN /\ (n - 1) * step < Len(words) /\ n * step >= Len(words)
       /\ \A i \in 0..(n - 1) :
             /\ Len(ChunkWords(i)) = Min(ct.chunk_size, Len(words) - i * step)
             /\ \A j \in 1..Len(ChunkWords(i)) : ChunkWords(i)[j] = words[i * step + j]

\* C14 as stated (SpecChunk): the windows are in place and every two
\* consecutive chunks share exactly `overlap` words, except possibly the
\* pair that ends with the final chunk
C14_OverlapButFinalPair ==
    Windowed
    => /\ ct.result.kind = "return"
       /\ WindowsInPlace
       /\ \A i \in 0..(Len(ct.result.value) - 3) : SharedWords(i) = ct.overlap

\* C14 amended (SpecChunk): the windows are in place and every two
\* consecutive chunks share exactly min(overlap, words of the later chunk)
\* words: `overlap` words unless the later chunk is a trailing chunk
\* shorter than that, of which there can be more than one
C14_OverlapButShortTrailingChunks ==
    Windowed
    => /\ ct.result.kind = "return"
       /\ WindowsInPlace
       /\ \A i \in 0..(Len(ct.result.value) - 2) :
             SharedWords(i) = Min(ct.overlap, Len(ChunkWords(i + 1)))

C14_Witness ==
    /\ Windowed
    /\ \E i \in 0..(Len(ct.result.value) - 3) :
          /\ Len(ChunkWords(i + 1)) < ct.overlap
          /\ SharedWords(i) = Len(ChunkWords(i + 1))

\* C15 (SpecChunk): for a text of exactly chunk_size words chunk_text returns
\* one chunk, the whole text; for a text of fewer words it returns the whole
\* text as one chunk when the text holds a word and no chunk when the text
\* is empty or whitespace only
C15_WindowingBoundary ==
    (ct.phase = "done" /\ Len(split(ct.text)) <= ct.chunk_size)
    => ct.result = Returned(IF \E j \in 1..Len(ct.text) : ct.text[j] # SP
                            THEN <<ct.text>> ELSE <<>>)

C15_Witness ==
    /\ ct.phase = "done" /\ Len(split(ct.text)) = ct.chunk_size
    /\ ct.overlap \in 1..(ct.chunk_size - 1)
    /\ ct.text # join(split(ct.text))
    /\ ct.result = Returned(<<ct.text>>)

\* C16 (Spec): every page or section that extraction hands to chunking has
\* a cleaned text of at least 50 characters, and no stored record comes
\* from a page or section whose cleaned text is shorter
C16_MinimumPageLength ==
    (run.phase # "none" /\ ~already_indexed(run.pre, run.force))
    => /\ \A k \in 1..Len(ExtractedDocuments[run.edition]) :
             len(ExtractedDocuments[run.edition][k].text) >= min_page_chars
       /\ \A k \in 1..Len(run.items) :
             run.items[k].id \in DOMAIN collection
             => len(_clean_text(Files(run.edition)[run.items[k].metadata.source]
                                   .units[run.items[k].metadata.page])) >= min_page_chars

MaxPage == 12        \* largest page number of the triples compared
MaxChunkIdx == 11    \* largest chunk index of the triples compared

Triples == Configured \X (1..MaxPage) \X (0..MaxChunkIdx)

\* the ids of the triples, as many as the triples when no two share an id
TripleIds == {chunk_id(t[1], t[2], t[3]) : t \in Triples}

\* C17 (Spec): two chunks that differ in source, page or chunk index never
\* get the same id, and after a complete run from an empty index count()
\* is the number of chunks the run produced, each stored under its id
C17_ChunkIdentity ==
    /\ Cardinality(TripleIds) = Cardinality(Triples)
    /\ (run.phase = "done" /\ run.outcome = "completed" /\ count(run.pre) = 0)
       => /\ count(collection) = Len(run.items)
          /\ \A k \in 1..Len(run.items) :
                /\ run.items[k].id \in DOMAIN collection
                /\ collection[run.items[k].id].metadata = run.items[k].metadata

C17_Witness ==
    /\ run.phase = "done" /\ run.outcome = "completed" /\ count(run.pre) = 0
    /\ count(collection) = Len(run.items)
    /\ \E j, k \in 1..Len(run.items) :
          /\ run.items[j].metadata.source # run.items[k].metadata.source
          /\ run.items[j].metadata.page = run.items[k].metadata.page
    /\ \E j, k \in 1..Len(run.items) :
          /\ run.items[j].metadata.source = run.items[k].metadata.source
          /\ run.items[j].metadata.page = run.items[k].metadata.page
          /\ run.items[j].metadata.chunk # run.items[k].metadata.chunk

\* the records of an edition when all its chunks are added in one batch
IndexedAtOnce == [e \in Editions |-> Indexed(ChunkItems[e])]

\* C18 (SpecBatch): whatever the batch size, a run from an empty index in
\* which no batch fails ends with the records (ids, texts, metadata) that
\* adding all chunks in a single batch gives, so any two batch sizes give
\* the same records
C18_BatchSizeIndependence ==
    (run.phase = "done" /\ run.outcome = "completed" /\ count(run.pre) = 0)
    => collection = IndexedAtOnce[run.edition]

C18_Witness ==
    /\ run.phase = "done" /\ run.outcome = "completed" /\ count(run.pre) = 0
    /\ run.batch_size = 2 /\ Len(run.items) % 2 = 1 /\ run.adds >= 3
    /\ count(collection) = Len(run.items)

\* C19 (SpecSearch): the results search returns are in non-increasing score
\* order, whatever the index, n_results, min_score and the (ascending)
\* distances of the neighbours
C19_DescendingScores ==
    SearchReturned
    => \A i, j \in 1..Len(srch.found) :
          i < j => srch.found[i].score >= srch.found[j].score

C19_Witness ==
    /\ SearchReturned /\ srch.op = "search" /\ Len(srch.found) >= 3
    /\ srch.found[1].score > srch.found[2].score
    /\ srch.found[2].score > srch.found[3].score
    /\ srch.found[3].score < 0

\* C20 (SpecSearch): get_context_for_query returns the empty string exactly
\* when search returns no result; otherwise one block per result, in the
\* order of the results, each giving the source, page, score and text of
\* its result, with a separator between two blocks
C20_ContextAssembly ==
    (SearchReturned /\ srch.op = "get_context_for_query")
    => LET context == srch.result.value
           n == Len(srch.found)
       IN /\ srch.result.kind = "return"
          /\ context = <<>> <=> n = 0
          /\ n > 0 => Len(context) = 2 * n - 1
          /\ \A k \in 1..n :
                /\ context[2 * k - 1][2] = srch.found[k].metadata.source
                /\ context[2 * k - 1][4] = srch.found[k].metadata.page
                /\ context[2 * k - 1][6] = srch.found[k].score
                /\ context[2 * k - 1][8] = srch.found[k].text
          /\ \A k \in 1..(n - 1) : context[2 * k] = "\n\n---\n\n"

C20_Witness ==
    /\ SearchReturned /\ srch.op = "get_context_for_query"
    /\ Len(srch.found) >= 2 /\ srch.found[1].score > srch.found[2].score
    /\ Len(srch.result.value) = 2 * Len(srch.found) - 1

\* the letter of the query is the letter of the key, in either case
SameLetter(c, letter) ==
    c = letter \/ \E k \in 1..Len(UpperCase) : UpperCase[k] = c /\ LowerCase[k] = letter

\* the key occurs in the query, case put aside, also inside a longer word
Occurs(key, query) ==
    \E i \in 1..Len(query) :
        \A j \in 1..Len(key) :
            i + j - 1 <= Len(query) /\ SameLetter(query[i + j - 1], key[j])

\* for the entries from k on: the first two terms of each key that occurs
RECURSIVE TermsFor(_, _)
TermsFor(query, k) ==
    IF k > Len(DND_SYNONYMS) THEN <<>>
    ELSE LET terms == DND_SYNONYMS[k][2]
         IN (IF Occurs(DND_SYNONYMS[k][1], query)
             THEN [i \in 1..(IF Len(terms) < 2 THEN Len(terms) ELSE 2) |-> terms[i]]
             ELSE <<>>)
            \o TermsFor(query, k + 1)

\* C21 (SpecExpand): _expand_query returns the query followed by, for each
\* key that occurs in it (case put aside, also inside a longer word), the
\* first two terms of that key, each behind a space, and nothing else
C21_QueryExpansion ==
    xq.phase = "done"
    => LET q == xq.query
           r == xq.result
           terms == TermsFor(q, 1)
       IN /\ Len(r) = Len(q) + 2 * Len(terms)
          /\ \A i \in 1..Len(q) : r[i] = q[i]
          /\ \A i \in 1..Len(terms) :
                r[Len(q) + 2 * i - 1] = " " /\ r[Len(q) + 2 * i] = terms[i]

C21_Witness ==
    /\ xq.phase = "done" /\ Len(xq.query) > 5
    /\ \E i \in 1..Len(xq.query) : xq.query[i] = "G"
    /\ \E i \in 1..Len(xq.result) : xq.result[i] = "magic"
    /\ \E i \in 1..Len(xq.result) : xq.result[i] = "spell"
    /\ \A i \in 1..Len(xq.result) : xq.result[i] # "spellcasting"
    /\ \E i \in 1..Len(xq.result) : xq.result[i] = "battle"

\* C22 (SpecSearch): when search_rule returns, it returns the message
\* "Aucune regle trouvee. Verifie que les documents sont indexes." exactly
\* when search found nothing, and otherwise the header "Regles trouvees:"
\* followed by the context of the results; it never returns the empty string
C22_RuleLookupMessage ==
    (srch.phase = "done" /\ srch.op = "search_rule" /\ srch.result.kind = "return")
    => LET text == srch.result.value
           n == Len(srch.found)
       IN /\ text # <<>>
          /\ n = 0 <=> (Len(text) = 1 /\ text[1] =
                           "Aucune regle trouvee. Verifie que les documents sont indexes.")
          /\ n > 0 => /\ text[1] = "Regles trouvees:\n\n"
                      /\ Len(text) = 2 * n
                      /\ \A k \in 1..n : text[2 * k][8] = srch.found[k].text

C22_Witness ==
    /\ srch.phase = "done" /\ srch.op = "search_rule" /\ srch.count = 0
    /\ srch.result.kind = "return" /\ Len(srch.result.value) = 1
    /\ srch.found = <<>>

\* C23 (SpecInterleave): a search between two batch writes of a run sees
\* the count() of that moment and only records that were in the index
\* before the run or belong to a batch the run has written completely;
\* no step makes count() decrease, so successive reads never see it shrink
C23_ReadsDuringIngestion ==
    [][/\ count(collection') >= count(collection)
       /\ (srch.phase = "none" /\ srch'.phase = "done")
          => /\ srch'.count = count(collection)
             /\ \A k \in 1..Len(srch'.neighbours) :
                   \/ srch'.neighbours[k].id \in DOMAIN run.pre
                   \/ \E j \in 1..Min(run.i, Len(run.items)) :
                         run.items[j].id = srch'.neighbours[k].id]_vars

C23_Witness ==
    /\ srch.phase = "done" /\ run.phase = "batching"
    /\ count(run.pre) = 0 /\ run.i > 0
    /\ srch.count = run.i /\ srch.count < Len(run.items)
    /\ Len(srch.found) >= 2

\* C24 (SpecRun): with chunk_size 250 and overlap 75 every index_documents
\* call that has entered its batch loop ends, with every batch written or
\* with the error of a batch; it does not stay in the loop forever
C24_RunTerminates ==
    (run.phase = "batching") ~> (run.phase = "done" /\ run.outcome \in {"completed", "raised"})

C24_Witness ==
    /\ run.phase = "done" /\ run.outcome = "completed"
    /\ run.adds >= MaxBatches /\ count(collection) = Len(run.items)

\* C25 (SpecModel): once a DnDAssistantModel is built, Ollama is the active
\* backend when use_ollama is True and the Ollama probe succeeded, and
\* is_available() is true whenever one of the two probes succeeded
C25_BackendSelection ==
    llm.phase = "ready"
    => /\ (llm.use_ollama /\ llm.ollama) => llm.backend = "Ollama"
       /\ (llm.ollama \/ llm.lmstudio) => is_available(llm)

\* the ids of the chunks that each edition yields
ChunkIds ==
    [e \in Editions |-> {ChunkItems[e][k].id : k \in 1..Len(ChunkItems[e])}]

\* C26 (Spec): when a start of the application ends without error, either
\* at once on a populated index or with the end of the run that it started,
\* and the corpus yields at least one chunk, the index holds a record for
\* every chunk of the corpus
C26_IndexCompleteAfterStartup ==
    [][(/\ \/ boot'.n = boot.n + 1 /\ run'.phase # "batching"
           \/ /\ boot' = boot /\ boot.triggered /\ ~run.force
              /\ run.phase = "batching" /\ run'.phase = "done"
        /\ boot'.triggered => run'.outcome # "raised"
        /\ ChunkItems[corpus'] # <<>>)
       => ChunkIds[corpus'] \subseteq DOMAIN collection']_vars

\* a start of the application on the index that a failed run left behind
C26_StartOnPartialIndex ==
    /\ boot.n = 1 /\ ~boot.triggered /\ boot.count > 0
    /\ run.n = 1 /\ run.outcome = "raised" /\ run.edition = corpus
    /\ ~(ChunkIds[corpus] \subseteq DOMAIN collection)

\* the index in the text (from 0) of the first word of chunk number i (the
\* words of the texts of SpecChunk are distinct)
ChunkStart(i) ==
    LET words == split(ct.text)
    IN (CHOOSE j \in 1..Len(words) : words[j] = ChunkWords(i)[1]) - 1

\* C27 (SpecChunk): for 0 <= overlap < chunk_size and any text, chunk_text
\* returns chunks that are runs of consecutive words of the text, in text
\* order, the first starting at the first word, the last ending at the last
\* word and each starting no later than where the one before ends, so
\* every word is in a chunk and none is lost between two windows; a text of
\* more than chunk_size words gives no chunk of more than chunk_size words
C27_ChunkCoverage ==
    (ct.phase = "done" /\ ct.overlap < ct.chunk_size)
    => /\ ct.result.kind = "return"
       /\ LET words == split(ct.text)
              n == Len(ct.result.value)
          IN /\ n = 0 <=> words = <<>>
             /\ \A i \in 0..(n - 1) :
                   /\ ChunkWords(i) # <<>>
                   /\ ChunkWords(i) =
                         slice(words, ChunkStart(i), ChunkStart(i) + Len(ChunkWords(i)))
                   /\ Len(words) > ct.chunk_size => Len(ChunkWords(i)) <= ct.chunk_size
             /\ n > 0 => /\ ChunkStart(0) = 0
                         /\ ChunkStart(n - 1) + Len(ChunkWords(n - 1)) = Len(words)
             /\ \A i \in 0..(n - 2) :
                   /\ ChunkStart(i) < ChunkStart(i + 1)
                   /\ ChunkStart(i + 1) <= ChunkStart(i) + Len(ChunkWords(i))
             /\ \A j \in 1..Len(words) :
                   \E i \in 0..(n - 1) :
                      \E k \in 1..Len(ChunkWords(i)) : ChunkWords(i)[k] = words[j]

C27_Witness ==
    /\ Windowed /\ ct.overlap = 0 /\ ct.chunk_size >= 2
    /\ Len(ct.result.value) >= 3
    /\ Len(ChunkWords(Len(ct.result.value) - 1)) < ct.chunk_size
    /\ ChunkStart(1) = ChunkStart(0) + Len(ChunkWords(0))
    /\ ChunkStart(Len(ct.result.value) - 1) + Len(ChunkWords(Len(ct.result.value) - 1))
          = Len(split(ct.text))

\* C28 (SpecTracker): after any sequence of add, remove, next_turn,
\* prev_turn and clear, current_index is 0 when the creature list is empty
\* and otherwise 0 <= current_index < len(creatures); get_current() never
\* raises and returns None exactly when the list is empty; round_number >= 1
C28_IndexValidity ==
    /\ tracker.creatures = <<>> => tracker.current_index = 0
    /\ tracker.creatures # <<>>
       => 0 <= tracker.current_index /\ tracker.current_index < Len(tracker.creatures)
    /\ get_current(tracker).kind = "return"
    /\ get_current(tracker).value = <<>> <=> tracker.creatures = <<>>
    /\ tracker.round_number >= 1

\* the last creature was removed while it was its turn
C28_Witness ==
    /\ tracker.call.op = "remove" /\ tracker.call.returned
    /\ Len(tracker.call.was.creatures) = 2
    /\ tracker.call.index = 1 /\ tracker.call.was.current_index = 1
    /\ tracker.creatures # <<>> /\ tracker.current_index = 0
    /\ tracker.round_number >= 2

\* C29 (SpecTracker): add(name, init) of a creature with a new name, and
\* remove(index) of a creature other than the current one, leave
\* get_current() returning the creature it returned before the call
C29_CurrentCreatureStable ==
    LET was == tracker.call.was
        named(n) == \E k \in 1..Len(was.creatures) : was.creatures[k].name = n
    IN (\/ /\ tracker.call.op = "add" /\ tracker.call.returned
           /\ was.creatures # <<>> /\ ~named(strip(tracker.call.name))
        \/ /\ tracker.call.op = "remove" /\ tracker.call.returned
           /\ tracker.call.index # was.current_index)
       => get_current(tracker) = get_current(was)

\* C30 (SpecTracker): next_turn() followed by prev_turn() on a non-empty
\* creature list restores current_index and round_number, also when
\* next_turn() went from the last creature to the first and began a round
C30_TurnRoundTrip ==
    (/\ tracker.call.op = "prev_turn" /\ tracker.earlier.op = "next_turn"
     /\ tracker.creatures # <<>>)
    => /\ tracker.current_index = tracker.earlier.current_index
       /\ tracker.round_number = tracker.earlier.round_number

C30_Witness ==
    /\ tracker.call.op = "prev_turn" /\ tracker.earlier.op = "next_turn"
    /\ Len(tracker.creatures) >= 2
    /\ tracker.call.was.current_index = 0
    /\ tracker.call.was.round_number = tracker.earlier.round_number + 1
    /\ tracker.current_index = Len(tracker.creatures) - 1
    /\ tracker.round_number = tracker.earlier.round_number
    /\ tracker.round_number >= 2

====
